---- MODULE Spec2Model ----
(***************************************************************************)
(* vumi/application/sandbox.py: one SandboxProtocol run.                   *)
(*                                                                         *)
(* The state is the protocol object (SandboxProtocol), its SandboxApi, the *)
(* Twisted process transport it talks to and the child process behind it.  *)
(* The reactor is single-threaded: every callback of the protocol and      *)
(* every resumption of a dispatch_request generator is one atomic action.  *)
(*                                                                         *)
(* Bytes are modelled as short strings.  NL is the newline.  What the     *)
(* child writes is fixed when it starts (child_out, child_err); the        *)
(* transport cuts it into chunks of 1..MaxChunk bytes.  Under Spec a byte  *)
(* other than NL stands for a whole JSON text (see JsonTexts) and the      *)
(* child runs one of CommandScripts; under SpecFraming the child writes    *)
(* any sequence of "x" and NL of up to MaxBytes bytes.                     *)
(*                                                                         *)
(* The run also carries the Deferred of Sandbox._process_in_sandbox (run). *)
(* SpecLive is Spec for two short children with the fairness of the        *)
(* reactor.  SpecKv and SpecKvValues are the handlers of RedisResource on  *)
(* the store its sandboxes share, each suspended at every call of the      *)
(* store.                                                                  *)
(***************************************************************************)
EXTENDS Integers, Sequences, FiniteSets, TLC

VARIABLES
    spawned,        \* spawn() has been called
    transport,      \* "none" | "attached": self.transport (set by makeConnection)
    pid,            \* transport.pid is not None
    proc,           \* the child: "unborn" | "alive" | "exit0" | "exit1" | "killed"
    pipes,          \* which of the child's pipes the transport still holds
    ended,          \* processEnded has been called
    started,        \* self._started: [result, fires, deferreds]
    done,           \* self._done: [result, fires, deferreds]
    pending,        \* self._pending_requests, one record per dispatch task
    requests_done,  \* the DeferredList of processEnded: its state, the
                    \* requests it waits for, whether it had to wait
    timeout_task,   \* "active" | "cancelled" | "called"
    recv_bytes,     \* self.recv_bytes
    chunk,          \* self.chunk
    error_chunk,    \* self.error_chunk
    written,        \* what transport.write put on the child's stdin, per send()
    signals,        \* KILL signals delivered to the transport
    log,            \* api.log / log.error calls, in order
    child_out,      \* the bytes the child has still to get through stdout
    child_err,      \* the bytes the child has still to get through stderr
    run,            \* the Deferred Sandbox._process_in_sandbox returned:
                    \* what it waits for and the status it completed with
    redis,          \* the key/value store of RedisResource: pairs of a key
                    \* and the string stored under it
    kv_calls,       \* the handle_set, handle_get, handle_delete and
                    \* handle_incr calls made so far, each with the place
                    \* it is suspended at
    kv_hist,        \* who wrote what under the keys of the store, read by
                    \* the properties only
    waiters,        \* the Deferreds that get() of self._started and
                    \* self._done handed out to callers other than the run
    runs,           \* the SandboxProtocol and SandboxApi pairs that are
                    \* alive together on one SandboxResources registry
    hist            \* history of the run, read by the properties only

vars == <<spawned, transport, pid, proc, pipes, ended, started, done, pending,
          requests_done, timeout_task, recv_bytes, chunk, error_chunk,
          written, signals, log, child_out, child_err, run, redis,
          kv_calls, kv_hist, waiters, runs, hist>>

\* the state of one SandboxProtocol and its run
protocol_vars ==
    <<spawned, transport, pid, proc, pipes, ended, started, done, pending,
      requests_done, timeout_task, recv_bytes, chunk, error_chunk, written,
      signals, log, child_out, child_err, run, hist>>

\* the state of the RedisResource shared by the sandboxes
kv_vars == <<redis, kv_calls, kv_hist>>

\* what the protocol's callbacks and the store's handlers never touch
other_vars == <<waiters, runs>>

----------------------------------------------------------------------------
(* Bounds of the model *)

\* recv_limit of the run (SandboxConfig.recv_limit, scaled down)
RecvLimit == 4
\* longest stdout stream of SpecFraming
MaxBytes == 4
\* longest chunk the transport delivers
MaxChunk == 3

NL == "\n"
NOT_FIRED == "NOT_FIRED"
None == "None"

----------------------------------------------------------------------------
(* str.split("\n") and str.partition(".") *)

RECURSIVE Split(_)
Split(s) ==
    IF \A i \in 1..Len(s) : s[i] # NL
    THEN <<s>>
    ELSE LET i == CHOOSE k \in 1..Len(s) :
                      s[k] = NL /\ \A j \in 1..(k - 1) : s[j] # NL
         IN  <<SubSeq(s, 1, i - 1)>> \o Split(SubSeq(s, i + 1, Len(s)))

\* name.partition("."): (head, sep, tail) at the first dot
partition(name) ==
    IF \A i \in 1..Len(name) : name[i] # "."
    THEN [head |-> name, sep |-> <<>>, tail |-> <<>>]
    ELSE LET i == CHOOSE k \in 1..Len(name) :
                      name[k] = "." /\ \A j \in 1..(k - 1) : name[j] # "."
         IN  [head |-> SubSeq(name, 1, i - 1), sep |-> <<".">>,
              tail |-> SubSeq(name, i + 1, Len(name))]

Front(s) == SubSeq(s, 1, Len(s) - 1)
Last(s) == s[Len(s)]

----------------------------------------------------------------------------
(* SandboxCommand *)

\* The JSON texts the child writes under Spec: one byte each.  A command name
\* is the sequence of its dot-free pieces and its dots.
JsonTexts ==
    [ G |-> [cmd |-> <<"kv", ".", "get">>,           cmd_id |-> <<"X">>,  content |-> FALSE],
      g |-> [cmd |-> <<"kv", ".", "get">>,           cmd_id |-> <<"Y">>,  content |-> FALSE],
      L |-> [cmd |-> <<"log", ".", "info">>,         cmd_id |-> <<"Z">>,  content |-> FALSE],
      O |-> [cmd |-> <<"outbound", ".", "send_to">>, cmd_id |-> <<"S1">>, content |-> TRUE],
      B |-> [cmd |-> <<"outbound", ".", "send_to">>, cmd_id |-> <<"S2">>, content |-> FALSE],
      P |-> [cmd |-> <<"outbound", ".", "reply_to">>, cmd_id |-> <<"P1">>, content |-> TRUE],
      Q |-> [cmd |-> <<"outbound", ".", "reply_to_group">>, cmd_id |-> <<"Q1">>, content |-> FALSE],
      N |-> [cmd |-> <<"foo">>,                      cmd_id |-> <<"N1">>, content |-> FALSE],
      R |-> [cmd |-> <<"nores", ".", "get">>,        cmd_id |-> <<"R1">>, content |-> FALSE],
      H |-> [cmd |-> <<"kv", ".", "no", ".", "op">>, cmd_id |-> <<"H1">>, content |-> FALSE] ]

\* SandboxCommand.from_json(line): the command of a line that is one JSON
\* object with cmd, cmd_id and reply; anything else raises.
valid_json(line) == Len(line) = 1 /\ line[1] \in DOMAIN JsonTexts

from_json(line) ==
    [cmd |-> JsonTexts[line[1]].cmd, cmd_id |-> JsonTexts[line[1]].cmd_id,
     reply |-> FALSE, content |-> JsonTexts[line[1]].content,
     success |-> None, reason |-> None]

\* SandboxCommand(**fields): cmd defaults to "unknown", cmd_id to a fresh
\* uuid (n tells the uuids of one run apart), reply to False.
SandboxCommand(cmd, cmd_id, reply, success, reason) ==
    [cmd |-> cmd, cmd_id |-> cmd_id, reply |-> reply, content |-> FALSE,
     success |-> success, reason |-> reason]

generate_id(n) == <<"uuid", n>>

_parse_command(line, n) ==
    IF valid_json(line)
    THEN from_json(line)
    ELSE SandboxCommand(<<"unknown">>, generate_id(n), FALSE, None, None)

----------------------------------------------------------------------------
(* SandboxResources, SandboxResource and the resources of the run *)

fallback_resource == <<"fallback">>

\* self.resources.resources: the registered names
resources == {<<"kv">>, <<"log">>, <<"outbound">>, <<"js">>}

\* the handle_<operation> methods of a resource
handlers(resource) ==
    CASE resource = <<"kv">>       -> {<<"get">>}
      [] resource = <<"log">>      -> {<<"info">>}
      [] resource = <<"outbound">> -> {<<"send_to">>, <<"reply_to">>,
                                       <<"reply_to_group">>}
      [] OTHER                     -> {}

\* SandboxResource.reply(command, **kwargs)
reply(command, success, reason) ==
    SandboxCommand(command.cmd, command.cmd_id, TRUE, success, reason)

----------------------------------------------------------------------------
(* The operations below run inside one callback of the reactor.  They take  *)
(* and return the part of the state a callback can change more than once:   *)
(*   st.pending, st.written, st.proc, st.signals, st.log as the variables,  *)
(*   st.kills   the calls of kill(): who called, and whether the transport *)
(*              had a pid then (history),                                   *)
(*   st.sent    the calls of send(): the command and who sent it (history), *)
(*   st.completed  the dispatch tasks in the order they settled (history),  *)
(*   st.raised  the exception that left the callback, or None.              *)

\* transport.signalProcess('KILL'): ends a child that is still running; a
\* child that has exited and is not yet reaped is left as it is
signalProcess(st) ==
    [st EXCEPT !.signals = @ + 1,
               !.proc = IF @ = "alive" THEN "killed" ELSE @]

\* SandboxProtocol.kill
kill(st, by) ==
    LET called == [st EXCEPT !.kills = Append(@, [by |-> by, pid |-> pid])]
    IN  IF transport = "none"
        THEN [called EXCEPT !.raised = "AttributeError"]
        ELSE IF pid THEN signalProcess(called) ELSE called

\* send() on a transport that writes whether or not the child's stdin is
\* still open
send_to_closed_stdin(st, command, by) ==
    LET e == [msg |-> command, by |-> by]
    IN  IF transport = "none"
        THEN [st EXCEPT !.sent = Append(@, e), !.raised = "AttributeError"]
        ELSE [st EXCEPT !.sent = Append(@, e), !.written = Append(@, e)]

\* SandboxProtocol.send: transport.write loses the data without an error
\* once the child's stdin is closed.  by: the dispatch task that sends.
send(st, command, by) ==
    LET called == [st EXCEPT !.sent = Append(@, [msg |-> command, by |-> by])]
    IN  IF transport = "none"
        THEN [called EXCEPT !.raised = "AttributeError"]
        ELSE IF pipes.stdin
             THEN [called EXCEPT !.written =
                                     Append(@, [msg |-> command, by |-> by])]
             ELSE called

\* SandboxApi.log(msg, level) and vumi.log.error: one entry per call
api_log(st, what, by) ==
    [st EXCEPT !.log = Append(@, [via |-> "api", level |-> "ERROR",
                                  what |-> what, by |-> by])]

log_error(st, what, by) ==
    [st EXCEPT !.log = Append(@, [via |-> "twisted", level |-> "ERROR",
                                  what |-> what, by |-> by])]

\* SandboxApi.sandbox_kill
sandbox_kill(st, by) == kill(st, by)

\* unknown_request that logs and leaves the child running
unknown_request_no_kill(st, by) == api_log(st, "unknown_request", by)

\* unknown_request that kills without a word to the sandbox's owner
unknown_request_no_log(st, by) == sandbox_kill(st, by)

\* SandboxResource.unknown_request: returns None
unknown_request(st, by) == sandbox_kill(api_log(st, "unknown_request", by), by)

\* SandboxResource.dispatch_request: the handler getattr finds on the
\* resource, unknown_request when there is no handle_<cmd>
resource_handler(resource, command) ==
    IF command.cmd \in handlers(resource)
    THEN [resource |-> resource, handle |-> command.cmd]
    ELSE [resource |-> resource, handle |-> <<"unknown_request">>]

\* outbound handlers that answer the child
handler_result_outbound_replies(h, command) ==
    CASE h.handle = <<"unknown_request">>   -> "None"
      [] h.resource = <<"log">>             -> "reply"
      [] h.resource = <<"outbound">>        -> IF command.content THEN "reply"
                                               ELSE "raises"
      [] h.resource = <<"kv">>              -> "waits"

\* The handlers that return without waiting on a backend:
\*   LoggingResource.handle_info   a reply with success=True
\*   OutboundResource.handle_send_to, handle_reply_to, handle_reply_to_group
\*       None; command['content'] (and the other fields read with [])
\*       raises KeyError when the field is missing
\* RedisResource.handle_get waits on the store: "waits".
handler_result(h, command) ==
    CASE h.handle = <<"unknown_request">>   -> "None"
      [] h.resource = <<"log">>             -> "reply"
      [] h.resource = <<"outbound">>        -> IF command.content THEN "None"
                                               ELSE "raises"
      [] h.resource = <<"kv">>              -> "waits"

\* a reply that keeps the name the handler saw
restore_cmd_rest(t) == t.rest

\* reply['cmd'] = '%s%s%s' % (resource_name, sep, rest)
restore_cmd(t) == t.resource_name \o t.sep \o t.rest

\* dispatch_request without its except clause: the handler's exception
\* fails the task
dispatch_finish_propagates(st, i, result) ==
    LET t   == st.pending[i]
        by  == <<"task", i>>
        st2 == IF result = "reply"
               THEN send(st, [reply(t.command, "True", None)
                                  EXCEPT !.cmd = restore_cmd(t)], by)
               ELSE st
    IN  [st2 EXCEPT !.pending[i].status =
                        IF result = "raises" THEN "failed" ELSE "ok",
                    !.pending[i].returned = result,
                    !.completed = Append(@, i)]

\* SandboxApi.dispatch_request from `reply = yield ...` on: what the
\* handler of task i gave (result: "reply" | "None" | "raises"), the except
\* clause, the restored name and the send
dispatch_finish(st, i, result) ==
    LET t       == st.pending[i]
        by      == <<"task", i>>
        failed  == api_log(log_error(st, "handler", by), "handler", by)
        st1     == IF result = "raises" THEN failed ELSE st
        rep     == CASE result = "reply"  -> reply(t.command, "True", None)
                     [] result = "raises" ->
                          SandboxCommand(<<"unknown">>, t.command.cmd_id, TRUE,
                                         "False", "message")
                     [] OTHER             -> None
        st2     == IF result = "None"
                   THEN st1
                   ELSE send(st1, [rep EXCEPT !.cmd = restore_cmd(t)], by)
    IN  [st2 EXCEPT !.pending[i].status = "ok",
                    !.pending[i].returned = result,
                    !.completed = Append(@, i)]

\* SandboxApi.dispatch_request(command), up to the first suspension, and
\* the append of its Deferred to self._pending_requests
dispatch_request(st, command, line) ==
    LET i   == Len(st.pending) + 1
        p   == partition(command.cmd)
        resource_name == IF p.sep = <<>> THEN <<>> ELSE p.head
        rest          == IF p.sep = <<>> THEN p.head ELSE p.tail
        resource == IF resource_name \in resources THEN resource_name
                    ELSE fallback_resource
        cmd1 == [command EXCEPT !.cmd = rest]
        h    == resource_handler(resource, cmd1)
        r    == handler_result(h, cmd1)
        task == [line |-> line, wire |-> command.cmd, command |-> cmd1,
                 resource_name |-> resource_name, sep |-> p.sep, rest |-> rest,
                 handler |-> h, status |-> "pending", returned |-> "pending"]
        st1  == [st EXCEPT !.pending = Append(@, task)]
        st2  == IF h.handle = <<"unknown_request">>
                THEN unknown_request(st1, <<"task", i>>)
                ELSE st1
    IN  IF r = "waits" THEN st2 ELSE dispatch_finish(st2, i, r)

RECURSIVE dispatch_lines(_, _)
dispatch_lines(st, lines) ==
    IF lines = <<>>
    THEN st
    ELSE dispatch_lines(
             dispatch_request(st, _parse_command(lines[1], Len(st.pending) + 1),
                              lines[1]),
             Tail(lines))

----------------------------------------------------------------------------
(* MultiDeferred *)

Result(kind, exc, exitCode, signal) ==
    [kind |-> kind, exc |-> exc, exitCode |-> exitCode, signal |-> signal]

NotFired == Result(NOT_FIRED, None, <<>>, <<>>)

\* MultiDeferred.__init__: _result and _deferreds, the waiters by name
\* (fires counts the calls of callback, for the properties)
MultiDeferred == [result |-> NotFired, fires |-> 0, deferreds |-> <<>>]

\* MultiDeferred.fired
fired(md) == md.result # NotFired

\* MultiDeferred.callback, as far as the MultiDeferred goes: the waiters of
\* md.deferreds are completed with result by the caller
callback(md, result) ==
    [result |-> result, fires |-> md.fires + 1, deferreds |-> <<>>]

\* MultiDeferred.get, as far as the MultiDeferred goes: the new waiter d is
\* queued unless the result is there already
get(md, d) ==
    IF fired(md) THEN md ELSE [md EXCEPT !.deferreds = Append(@, d)]

\* a Deferred without callbacks of its own, and its callback(result)
Deferred == [result |-> NotFired, fires |-> 0]
d_callback(d, result) == [result |-> result, fires |-> d.fires + 1]

\* get() handing out a waiter that is never completed
get_deferred_pending(md) == Deferred

\* MultiDeferred.get, the Deferred it returns: completed on the spot with
\* the result when the MultiDeferred has fired
get_deferred(md) ==
    IF fired(md) THEN d_callback(Deferred, md.result) ELSE Deferred

\* the waiter of the run of _process_in_sandbox
RunDeferred == <<"run", 0>>

----------------------------------------------------------------------------
(* SandboxProtocol *)

\* the callback's view of the state
St == [pending |-> pending, written |-> written, proc |-> proc,
       signals |-> signals, log |-> log, kills |-> hist.kills,
       sent |-> hist.sent, completed |-> hist.completed,
       inits |-> hist.inits, raised |-> None]

\* the history a callback leaves
Hist(st) ==
    [hist EXCEPT !.kills = st.kills, !.sent = st.sent,
                 !.completed = st.completed, !.inits = st.inits,
                 !.raised = @ \/ st.raised # None]

Commit(st) ==
    /\ pending' = st.pending
    /\ written' = st.written
    /\ proc' = st.proc
    /\ signals' = st.signals
    /\ log' = st.log

----------------------------------------------------------------------------
(* Sandbox._process_in_sandbox: the Deferred it returns is `run`.  It waits *)
(* for started(), then (on_start) for done(); log.error is the errback of   *)
(* both.                                                                    *)

\* what vumi.log.error gives back to the Deferred it is an errback of
log_error_returns == Result("None", None, <<>>, <<>>)

Waiting(on) == [run EXCEPT !.state = on, !.status = NotFired]
Completed(status) == [run EXCEPT !.state = "fired", !.status = status]

\* api.sandbox_send inside on_start, which runs once the transport is
\* attached and the child's stdin is open.  n: the id of the command.
on_start_send(st, cmd, n) ==
    LET e == [msg |-> SandboxCommand(cmd, generate_id(n), FALSE, None, None),
              by |-> <<"on_start", 0>>]
    IN  [st EXCEPT !.sent = Append(@, e), !.written = Append(@, e)]

\* resource.sandbox_init(api): JsSandboxResource sends `initialize`, the
\* hook of SandboxResource does nothing
sandbox_init(st, resource) ==
    IF resource = <<"js">> THEN on_start_send(st, <<"initialize">>, -1) ELSE st

\* SandboxApi.sandbox_init: the hook of every registered resource (one of
\* them sends, so that the order of the dict does not show)
api_sandbox_init(st) ==
    [sandbox_init(st, <<"js">>) EXCEPT !.inits = @ + 1]

\* api_callback(): sandbox_inbound_message(msg) for a run started by
\* process_message_in_sandbox, sandbox_inbound_event(event) for one
\* started by process_event_in_sandbox
api_callback(st) ==
    on_start_send(st, IF run.entry = "message" THEN <<"inbound-message">>
                      ELSE <<"inbound-event">>, 0)

\* on_start with the message sent before the init hooks have run
on_start_callback_first(st) == api_sandbox_init(api_callback(st))

\* on_start(_result), up to its return: api.sandbox_init(), then
\* api_callback()
on_start(st) == api_callback(api_sandbox_init(st))

\* addBoth(on_start) in place of addCallbacks(on_start, log.error): on_start
\* also runs when `started` fires with a failure, on a protocol without
\* transport
started_errback_on_start(st) ==
    [st |-> [st EXCEPT !.inits = @ + 1,
                       !.sent = Append(@, [msg |-> SandboxCommand(
                                                  <<"inbound-message">>,
                                                  generate_id(0), FALSE, None,
                                                  None),
                                           by |-> <<"on_start", 0>>]),
                       !.raised = "AttributeError"],
     status |-> Result("Failure", "AttributeError", <<>>, <<>>)]

\* d.addCallbacks(on_start, log.error), when `started` fires with a failure:
\* the failure is logged and the run completes with what log.error returned
started_errback(st) ==
    [st |-> log_error(st, "started", <<"_process_in_sandbox">>),
     status |-> log_error_returns]

\* done() without its errback
done_result_no_errback(st, result) == [st |-> st, status |-> result]

\* d = sandbox_protocol.done(); d.addErrback(log.error); return d: the
\* status of the run is the result of `done`, or what log.error returned
\* when that result is a failure
done_result(st, result) ==
    IF result.kind = "Failure"
    THEN [st |-> log_error(st, "done", <<"on_start", 0>>),
          status |-> log_error_returns]
    ELSE [st |-> st, status |-> result]

\* MultiDeferred.callback of `started` with a failure, seen from the run r
run_started_fails(st, r) ==
    IF r.state = "started"
    THEN LET e == started_errback(st)
         IN  [st |-> e.st, run |-> Completed(e.status)]
    ELSE [st |-> st, run |-> r]

\* MultiDeferred.callback of `done`, seen from the run r
run_done_fires(st, r, result) ==
    IF r.state = "done"
    THEN LET e == done_result(st, result)
         IN  [st |-> e.st, run |-> Completed(e.status)]
    ELSE [st |-> st, run |-> r]

\* check_recv comparing each chunk alone with the limit
check_recv_per_chunk(st, nbytes) ==
    LET n == recv_bytes + nbytes
    IN  IF nbytes <= RecvLimit
        THEN [ok |-> TRUE, recv_bytes |-> n, st |-> st]
        ELSE [ok |-> FALSE, recv_bytes |-> n,
              st |-> api_log(kill(st, <<"check_recv">>), "too much data",
                             <<"check_recv">>)]

\* check_recv refusing the chunk that reaches the limit exactly
check_recv_strict(st, nbytes) ==
    LET n == recv_bytes + nbytes
    IN  IF n < RecvLimit
        THEN [ok |-> TRUE, recv_bytes |-> n, st |-> st]
        ELSE [ok |-> FALSE, recv_bytes |-> n,
              st |-> api_log(kill(st, <<"check_recv">>), "too much data",
                             <<"check_recv">>)]

\* SandboxProtocol.check_recv
check_recv(st, nbytes) ==
    LET n == recv_bytes + nbytes
    IN  IF n <= RecvLimit
        THEN [ok |-> TRUE, recv_bytes |-> n, st |-> st]
        ELSE [ok |-> FALSE, recv_bytes |-> n,
              st |-> api_log(kill(st, <<"check_recv">>), "too much data",
                             <<"check_recv">>)]

\* _process_data forgetting the carry of the chunk before
_process_data_no_carry(st, carry, data) ==
    LET c == check_recv(st, Len(data))
    IN  [recv_bytes |-> c.recv_bytes, st |-> c.st, ok |-> c.ok,
         lines |-> IF ~c.ok THEN << <<>> >> ELSE Split(data)]

\* SandboxProtocol._process_data
_process_data(st, carry, data) ==
    LET c == check_recv(st, Len(data))
        line_parts == Split(data)
    IN  [recv_bytes |-> c.recv_bytes, st |-> c.st, ok |-> c.ok,
         lines |-> IF ~c.ok THEN << <<>> >>
                   ELSE [line_parts EXCEPT ![1] = carry \o @]]

\* what the properties read of a chunk: its stream and length, the bytes
\* delivered before it, the length of the carry it met, whether check_recv
\* refused it, the lines it completed, the kill() and api.log calls of
\* check_recv
ChunkRecord(stream, data, r) ==
    [stream |-> stream, len |-> Len(data), before |-> hist.delivered,
     carry |-> Len(IF stream = "stdout" THEN chunk ELSE error_chunk),
     refused |-> ~r.ok, lines |-> Len(r.lines) - 1,
     kills |-> Len(r.st.kills) - Len(hist.kills),
     logs |-> Len(r.st.log) - Len(log)]

HistChunk(stream, data, r, st) ==
    [Hist(st) EXCEPT
                 !.delivered = @ + Len(data),
                 !.accepted = IF r.ok THEN @ + Len(data) ELSE @,
                 !.refused = @ \/ ~r.ok,
                 !.out = IF stream = "stdout" THEN @ \o data ELSE @,
                 !.lastChunk = ChunkRecord(stream, data, r)]

\* SandboxProtocol.outReceived
outReceived(data) ==
    /\ transport = "attached" /\ pipes.stdout
    /\ data # <<>> /\ Len(data) <= Len(child_out)
    /\ data = SubSeq(child_out, 1, Len(data))
    /\ child_out' = SubSeq(child_out, Len(data) + 1, Len(child_out))
    /\ LET r  == _process_data(St, chunk, data)
           st == dispatch_lines(r.st, Front(r.lines))
       IN  /\ Commit(st)
           /\ chunk' = Last(r.lines)
           /\ recv_bytes' = r.recv_bytes
           /\ hist' = HistChunk("stdout", data, r, st)
    /\ UNCHANGED <<kv_vars, other_vars>>
    /\ UNCHANGED <<run, spawned, transport, pid, pipes, ended, started, done,
                   requests_done, timeout_task, error_chunk, child_err>>

RECURSIVE log_lines(_, _)
log_lines(st, lines) ==
    IF lines = <<>> THEN st
    ELSE log_lines(api_log(st, "stderr", <<"errReceived">>), Tail(lines))

\* SandboxProtocol.errReceived
errReceived(data) ==
    /\ transport = "attached" /\ pipes.stderr
    /\ data # <<>> /\ Len(data) <= Len(child_err)
    /\ data = SubSeq(child_err, 1, Len(data))
    /\ child_err' = SubSeq(child_err, Len(data) + 1, Len(child_err))
    /\ LET r  == _process_data(St, error_chunk, data)
           st == log_lines(r.st, Front(r.lines))
       IN  /\ Commit(st)
           /\ error_chunk' = Last(r.lines)
           /\ recv_bytes' = r.recv_bytes
           /\ hist' = HistChunk("stderr", data, r, st)
    /\ UNCHANGED <<kv_vars, other_vars>>
    /\ UNCHANGED <<run, spawned, transport, pid, pipes, ended, started, done,
                   requests_done, timeout_task, chunk, child_out>>

\* SandboxProtocol.outConnectionLost
outConnectionLost ==
    /\ transport = "attached" /\ pipes.stdout
    /\ pipes' = [pipes EXCEPT !.stdout = FALSE]
    /\ LET st == IF chunk # <<>>
                 THEN dispatch_request(
                          St, _parse_command(chunk, Len(pending) + 1), chunk)
                 ELSE St
       IN  /\ Commit(st)
           /\ hist' = Hist(st)
    /\ chunk' = <<>>
    /\ UNCHANGED <<kv_vars, other_vars>>
    /\ UNCHANGED <<run, spawned, transport, pid, ended, started, done,
                   requests_done, timeout_task, recv_bytes, error_chunk,
                   child_out, child_err>>

\* SandboxProtocol.errConnectionLost
errConnectionLost ==
    /\ transport = "attached" /\ pipes.stderr
    /\ pipes' = [pipes EXCEPT !.stderr = FALSE]
    /\ log' = IF error_chunk # <<>>
              THEN api_log(St, "stderr", <<"errConnectionLost">>).log
              ELSE log
    /\ error_chunk' = <<>>
    /\ UNCHANGED <<kv_vars, other_vars>>
    /\ UNCHANGED <<run, spawned, transport, pid, proc, ended, started, done,
                   pending, requests_done, timeout_task, recv_bytes, chunk,
                   written, signals, child_out, child_err, hist>>

\* SandboxProtocol.connectionMade, called by the transport's makeConnection
\* once the child is forked and its pipes are set up
connectionMade ==
    /\ spawned /\ transport = "none" /\ ~ended
    /\ transport' = "attached"
    /\ pid' = TRUE
    /\ pipes' = [stdin |-> TRUE, stdout |-> TRUE, stderr |-> TRUE]
    /\ started' = callback(started, Result("protocol", None, <<>>, <<>>))
    /\ run.state = "started"
    /\ LET st == on_start(St)
       IN  /\ written' = st.written
           /\ hist' = Hist(st)
           /\ run' = Waiting("done")
           /\ done' = get(done, RunDeferred)
    /\ UNCHANGED <<kv_vars, other_vars>>
    /\ UNCHANGED <<spawned, proc, ended, pending, requests_done,
                   timeout_task, recv_bytes, chunk, error_chunk,
                   signals, log, child_out, child_err>>

\* the reason the transport hands to processEnded: ProcessDone for exit
\* code 0, ProcessTerminated for any other exit code or a signal
Reason(p) ==
    CASE p = "exit0"  -> Result("Failure", "ProcessDone", <<0>>, <<>>)
      [] p = "exit1"  -> Result("Failure", "ProcessTerminated", <<1>>, <<>>)
      [] p = "killed" -> Result("Failure", "ProcessTerminated", <<>>, <<9>>)

\* processEnded taking the status of every reason
ended_result_status(reason) ==
    Result("int", None, reason.exitCode, reason.signal)

\* processEnded's result: reason.value.status for ProcessDone, else reason
ended_result(reason) ==
    IF reason.exc = "ProcessDone"
    THEN Result("int", None, <<0>>, <<>>)
    ELSE reason

\* SandboxProtocol._process_request_results: for every failed request a
\* log.error and an api.log
RECURSIVE _process_request_results(_, _)
_process_request_results(st, n) ==
    IF n = 0 THEN st
    ELSE LET st1 == _process_request_results(st, n - 1)
         IN  IF st1.pending[n].status = "failed"
             THEN api_log(log_error(st1, "request", <<"processEnded">>),
                          "request", <<"processEnded">>)
             ELSE st1

\* a DeferredList that does not wait
requests_settled_at_once(st, n) == TRUE

\* DeferredList(self._pending_requests) over the first n requests: fires
\* when none of them is still pending
requests_settled(st, n) ==
    \A i \in 1..n : st.pending[i].status # "pending"

\* the callbacks processEnded adds to the DeferredList, run when it fires
requests_done_fires(st, rd, r) ==
    LET f == run_done_fires(_process_request_results(st, rd.n), r, rd.result)
    IN  /\ log' = f.st.log
        /\ done' = callback(done, rd.result)
        /\ run' = f.run
        /\ requests_done' = [rd EXCEPT !.state = "fired"]

\* processEnded firing `started` whether or not it has fired
started_on_end_unguarded(md) ==
    callback(md, Result("Failure", "SandboxError", <<>>, <<>>))

\* processEnded: if not self._started.fired(): self._started.callback(
\* Failure(SandboxError("Process failed to start.")))
started_on_end(md) ==
    IF ~fired(md)
    THEN callback(md, Result("Failure", "SandboxError", <<>>, <<>>))
    ELSE md

\* processEnded leaving the timer as it is
cancel_timeout_never(task) == task

\* processEnded: if self.timeout_task.active(): self.timeout_task.cancel()
cancel_timeout(task) == IF task = "active" THEN "cancelled" ELSE task

\* SandboxProtocol.processEnded
processEnded(reason) ==
    /\ ~ended
    /\ ended' = TRUE
    /\ timeout_task' = cancel_timeout(timeout_task)
    /\ started' = started_on_end(started)
    /\ LET rd == [state |-> "waiting", n |-> Len(pending),
                  waited |-> ~requests_settled(St, Len(pending)),
                  result |-> ended_result(reason)]
           s  == IF fired(started) THEN [st |-> St, run |-> run]
                 ELSE run_started_fails(St, run)
       IN  /\ hist' = [Hist(s.st) EXCEPT !.reason = reason]
           /\ IF requests_settled(St, rd.n)
              THEN requests_done_fires(s.st, rd, s.run)
              ELSE /\ requests_done' = rd
                   /\ log' = s.st.log
                   /\ run' = s.run
                   /\ UNCHANGED done
    /\ UNCHANGED <<kv_vars, other_vars>>
    /\ UNCHANGED <<spawned, transport, pid, proc, pipes, pending, recv_bytes,
                   chunk, error_chunk, written, signals, child_out, child_err>>

\* A handler that was waiting on its backend gets its answer (result:
\* "reply" or "raises") and dispatch_request runs to its end; its Deferred
\* fires, and with it the DeferredList when it was the last one.
request_settles(i, result) ==
    /\ i \in 1..Len(pending)
    /\ pending[i].status = "pending"
    /\ LET st == dispatch_finish(St, i, result)
       IN  /\ pending' = st.pending
           /\ written' = st.written
           /\ hist' = Hist(st)
           /\ IF requests_done.state = "waiting"
                 /\ requests_settled(st, requests_done.n)
              THEN requests_done_fires(st, requests_done, run)
              ELSE /\ log' = st.log
                   /\ UNCHANGED <<done, requests_done, run>>
    /\ UNCHANGED <<kv_vars, other_vars>>
    /\ UNCHANGED <<spawned, transport, pid, proc, pipes, ended, started,
                   timeout_task, recv_bytes, chunk, error_chunk, signals,
                   child_out, child_err>>

\* self.timeout_task = reactor.callLater(timeout, self.kill): the timer,
\* armed by __init__, expires
timeout_expires ==
    /\ timeout_task = "active"
    /\ timeout_task' = "called"
    /\ LET st == kill(St, <<"timeout">>)
       IN  /\ proc' = st.proc
           /\ signals' = st.signals
           /\ hist' = Hist(st)
    /\ UNCHANGED <<kv_vars, other_vars>>
    /\ UNCHANGED <<run, spawned, transport, pid, pipes, ended, started, done,
                   pending, requests_done, recv_bytes, chunk, error_chunk,
                   written, log, child_out, child_err>>

\* Sandbox._process_in_sandbox up to its return: sandbox_protocol.spawn()
\* (SandboxRlimiter.spawn forks the child), and the Deferred of started()
\* with on_start and log.error added
spawn ==
    /\ ~spawned
    /\ spawned' = TRUE
    /\ proc' = "alive"
    /\ run' = Waiting("started")
    /\ started' = get(started, RunDeferred)
    /\ UNCHANGED <<kv_vars, other_vars>>
    /\ UNCHANGED <<transport, pid, pipes, ended, done, pending,
                   requests_done, timeout_task, recv_bytes, chunk,
                   error_chunk, written, signals, log, child_out, child_err, hist>>

----------------------------------------------------------------------------
(* The child and the transport *)

\* the child exits on its own with exit code 0 or 1
child_exits(code) ==
    /\ proc = "alive"
    /\ proc' = IF code = 0 THEN "exit0" ELSE "exit1"
    /\ UNCHANGED <<kv_vars, other_vars>>
    /\ UNCHANGED <<run, spawned, transport, pid, pipes, ended, started, done,
                   pending, requests_done, timeout_task, recv_bytes, chunk,
                   error_chunk, written, signals, log, child_out, child_err, hist>>

\* the transport reaps the dead child: transport.pid becomes None
reap ==
    /\ transport = "attached" /\ pid
    /\ proc \in {"exit0", "exit1", "killed"}
    /\ pid' = FALSE
    /\ UNCHANGED <<kv_vars, other_vars>>
    /\ UNCHANGED <<run, spawned, transport, proc, pipes, ended, started, done,
                   pending, requests_done, timeout_task, recv_bytes, chunk,
                   error_chunk, written, signals, log, child_out, child_err, hist>>

\* the child's stdin is closed (ProcessProtocol.inConnectionLost does
\* nothing)
inConnectionLost ==
    /\ transport = "attached" /\ pipes.stdin
    /\ pipes' = [pipes EXCEPT !.stdin = FALSE]
    /\ UNCHANGED <<kv_vars, other_vars>>
    /\ UNCHANGED <<run, spawned, transport, pid, proc, ended, started, done,
                   pending, requests_done, timeout_task, recv_bytes, chunk,
                   error_chunk, written, signals, log, child_out, child_err, hist>>

\* the transport calls processEnded once the child is reaped and every
\* pipe is closed
process_ends ==
    /\ transport = "attached" /\ ~pid
    /\ ~pipes.stdin /\ ~pipes.stdout /\ ~pipes.stderr
    /\ processEnded(Reason(proc))

\* the child fails before the transport is connected: processEnded without
\* connectionMade
start_fails ==
    /\ spawned /\ transport = "none"
    /\ proc \in {"exit0", "exit1", "killed"}
    /\ processEnded(Reason(proc))

----------------------------------------------------------------------------
(* RedisResource.  A key, a sandbox id and a stored string are sequences of *)
(* characters.  A handler runs up to its next call of the store in one step; *)
(* the store executes that call at once, and the handler goes on, in a later *)
(* step, from the answer.                                                   *)

\* keys_per_user of the resource (config default 100, scaled down)
KeysPerUser == 1
\* number of kv commands of a run of SpecKv
MaxCalls == 4
\* number of handlers suspended at a time
MaxInProgress == 2

\* "#".join(parts)
RECURSIVE join(_)
join(parts) ==
    IF Len(parts) = 1 THEN parts[1]
    ELSE parts[1] \o <<"#">> \o join(Tail(parts))

\* RedisResource._count_key
_count_key(sandbox_id) == join(<< <<"count">>, sandbox_id >>)

\* RedisResource._sandboxed_key
_sandboxed_key(sandbox_id, key) == join(<< <<"sandboxes">>, sandbox_id, key >>)

\* JSON values: null, numbers, strings, arrays
JsonNull == [t |-> "null", v |-> <<>>]
JsonNum(n) == [t |-> "num", v |-> <<n>>]
JsonStr(str) == [t |-> "str", v |-> <<str>>]
JsonList(items) == [t |-> "list", v |-> items]
JsonError == [t |-> "ValueError", v |-> <<>>]

\* the values of the model: what the child sets, and the integers the store
\* can hold after redis.incr
JsonValues ==
    {JsonNull, JsonStr("1"), JsonList(<<JsonNum(1), JsonNull>>)}
        \cup {JsonNum(n) : n \in (0 - MaxCalls)..MaxCalls}

\* json.dumps(value): the JSON text of a value (arrays of up to two items)
RECURSIVE dumps(_)
dumps(value) ==
    CASE value.t = "null" -> <<"null">>
      [] value.t = "num"  -> <<ToString(value.v[1])>>
      [] value.t = "str"  -> <<"\"", value.v[1], "\"">>
      [] value.t = "list" ->
           <<"[">> \o (IF value.v = <<>> THEN <<>>
                       ELSE dumps(value.v[1])
                            \o (IF Len(value.v) > 1
                                THEN <<",">> \o dumps(value.v[2])
                                ELSE <<>>))
                   \o <<"]">>

\* json.loads(raw): the value a JSON text stands for; ValueError for a
\* string that is no JSON text
loads(raw) ==
    IF \E v \in JsonValues : dumps(v) = raw
    THEN CHOOSE v \in JsonValues : dumps(v) = raw
    ELSE JsonError

\* The store (TxRedisManager): exists, get, set, delete and incr of redis
r_exists(store, key) == \E e \in store : e.key = key
r_get(store, key) ==
    IF r_exists(store, key)
    THEN [found |-> TRUE, raw |-> (CHOOSE e \in store : e.key = key).raw]
    ELSE [found |-> FALSE, raw |-> <<>>]
r_delete(store, key) == {e \in store : e.key # key}
r_set(store, key, raw) == r_delete(store, key) \cup {[key |-> key, raw |-> raw]}
\* the integer a stored string is, for redis.incr
IsInteger(raw) ==
    \E n \in (0 - MaxCalls - 1)..(MaxCalls + 1) : raw = <<ToString(n)>>
ToInteger(raw) ==
    CHOOSE n \in (0 - MaxCalls - 1)..(MaxCalls + 1) : raw = <<ToString(n)>>
\* redis.incr(key, amount): a missing key counts as 0; a value that is no
\* integer is an error and stays as it is
r_incr(store, key, amount) ==
    LET old == r_get(store, key)
        n   == (IF old.found THEN ToInteger(old.raw) ELSE 0) + amount
    IN  IF old.found /\ ~IsInteger(old.raw)
        THEN [store |-> store, value |-> 0, error |-> TRUE]
        ELSE [store |-> r_set(store, key, <<ToString(n)>>), value |-> n,
              error |-> FALSE]

\* redis.incr(key, amount=amount) with the amount of the command: the
\* store refuses an amount that is no integer and changes nothing
r_incr_amount(store, key, amount) ==
    IF amount.t = "num" THEN r_incr(store, key, amount.v[1])
    ELSE [store |-> store, value |-> 0, error |-> TRUE]

\* the keys a sandbox id owns, and its counter
LiveKeys(store, sandbox_id) ==
    {e.key : e \in {x \in store :
         /\ Len(x.key) >= Len(_sandboxed_key(sandbox_id, <<>>))
         /\ SubSeq(x.key, 1, Len(_sandboxed_key(sandbox_id, <<>>)))
                = _sandboxed_key(sandbox_id, <<>>)}}
Live(store, sandbox_id) == Cardinality(LiveKeys(store, sandbox_id))
Counter(store, sandbox_id) ==
    LET c == r_get(store, _count_key(sandbox_id))
    IN  IF c.found THEN ToInteger(c.raw) ELSE 0

\* the replies of the handlers
NoReply == [success |-> None, reason |-> None, value |-> JsonNull,
            existed |-> None]
ReplySuccess == [NoReply EXCEPT !.success = "True"]
\* RedisResource._too_many_keys
_too_many_keys == [NoReply EXCEPT !.success = "False",
                                  !.reason = "Too many keys"]

\* kv_hist.last before any handler has ended
NoCall ==
    [sandbox_id |-> <<>>, op |-> None, key |-> <<>>, value |-> JsonNull,
     pc |-> "none", alone |-> FALSE,
     before |-> [live |-> 0, counter |-> 0, existed |-> FALSE],
     after |-> [live |-> 0, counter |-> 0, existed |-> FALSE],
     source |-> <<>>, expect |-> JsonError, reply |-> NoReply]

\* what the properties read of the store around a call
Snapshot(store, c) ==
    [live |-> Live(store, c.sandbox_id),
     counter |-> Counter(store, c.sandbox_id),
     existed |-> r_exists(store, _sandboxed_key(c.sandbox_id, c.key))]

\* the last write under a key of the store, as kv_hist keeps it
Wrote(h, key, value, by) ==
    {w \in h : w.key # key} \cup {[key |-> key, value |-> value, by |-> by]}
Forgot(h, key) == {w \in h : w.key # key}

\* a handler at its end: the reply, and the store as it leaves it
Finish(c, rep, store) ==
    [c EXCEPT !.pc = "done", !.reply = rep, !.after = Snapshot(store, c)]

\* RedisResource.check_keys after redis.exists(key): True at once for a key
\* that exists, else on to the counter
check_keys(exists) == IF exists THEN "checked" ELSE "count"

\* RedisResource.check_keys after redis.incr(count_key, 1)
check_keys_counted(n) == IF n > KeysPerUser THEN "rollback" ELSE "checked"

\* handle_get that hands out the stored string
handle_get_raw(found) ==
    IF found.found /\ found.raw # <<"null">>
    THEN [t |-> "str", v |-> found.raw] ELSE JsonNull

\* RedisResource.handle_get after redis.get(key)
handle_get_value(found) == IF found.found THEN loads(found.raw) ELSE JsonNull

\* where handle_set and handle_incr go on once check_keys returned True
Checked(c) == IF c.op = "set" THEN "set" ELSE "incr"

\* a handler as it is called
KvCall(cmd) ==
    [sandbox_id |-> cmd.sandbox_id, op |-> cmd.op, key |-> cmd.key,
     value |-> cmd.value, pc |-> "called",
     alone |-> kv_calls = <<>>,
     before |-> Snapshot(redis, cmd), after |-> Snapshot(redis, cmd),
     source |-> cmd.sandbox_id, expect |-> JsonError, reply |-> NoReply]

\* handle_set, handle_incr, handle_get and handle_delete up to the answer
\* of their first call of the store: the store, the writes and the handler
\* after it
kv_first(c) ==
    LET key == _sandboxed_key(c.sandbox_id, c.key)
    IN  CASE c.op \in {"set", "incr"} ->
               \* check_keys: redis.exists(key)
               [store |-> redis, writes |-> kv_hist.writes,
                call |-> [c EXCEPT !.pc =
                             IF check_keys(r_exists(redis, key)) = "checked"
                             THEN Checked(c) ELSE "count"]]
          [] c.op = "get" ->
               \* handle_get: redis.get(key)
               LET found == r_get(redis, key)
                   last  == {w \in kv_hist.writes : w.key = key}
                   value == handle_get_value(found)
                   c1    == [c EXCEPT
                              !.source = IF last = {} THEN c.sandbox_id
                                         ELSE (CHOOSE w \in last : TRUE).by,
                              !.expect = IF last = {} THEN JsonNull
                                         ELSE (CHOOSE w \in last : TRUE).value]
               IN  [store |-> redis, writes |-> kv_hist.writes,
                    call |-> Finish(c1,
                                IF value = JsonError
                                THEN [NoReply EXCEPT !.success = "False",
                                                     !.reason = "ValueError"]
                                ELSE [ReplySuccess EXCEPT !.value = value],
                                redis)]
          [] c.op = "delete" ->
               \* handle_delete: redis.delete(key)
               LET existed == r_exists(redis, key)
                   store   == r_delete(redis, key)
               IN  [store |-> store, writes |-> Forgot(kv_hist.writes, key),
                    call |-> IF existed THEN [c EXCEPT !.pc = "decr"]
                             ELSE Finish(c, [ReplySuccess EXCEPT
                                                 !.existed = "False"], store)]

\* handle_incr: amount = command.get('amount', 1); the command of the
\* model carries the amount as its value, JsonNull when it has none
amount(c) == IF c.value = JsonNull THEN JsonNum(1) ELSE c.value

\* a handler from the answer of the store to its next call of the store,
\* or to its end
kv_next(c) ==
    LET key == _sandboxed_key(c.sandbox_id, c.key)
        count_key == _count_key(c.sandbox_id)
    IN  CASE c.pc = "count" ->
               \* check_keys: redis.incr(count_key, 1)
               LET r == r_incr(redis, count_key, 1)
               IN  [store |-> r.store, writes |-> kv_hist.writes,
                    call |-> [c EXCEPT !.pc =
                                 IF check_keys_counted(r.value) = "checked"
                                 THEN Checked(c) ELSE "rollback"]]
          [] c.pc = "rollback" ->
               \* check_keys: redis.incr(count_key, -1), then the reply of
               \* _too_many_keys
               LET r == r_incr(redis, count_key, -1)
               IN  [store |-> r.store, writes |-> kv_hist.writes,
                    call |-> Finish(c, _too_many_keys, r.store)]
          [] c.pc = "set" ->
               \* handle_set: redis.set(key, json.dumps(value))
               LET store == r_set(redis, key, dumps(c.value))
               IN  [store |-> store,
                    writes |-> Wrote(kv_hist.writes, key, c.value,
                                     c.sandbox_id),
                    call |-> Finish(c, ReplySuccess, store)]
          [] c.pc = "incr" ->
               \* handle_incr: redis.incr(key, amount)
               LET r == r_incr_amount(redis, key, amount(c))
               IN  [store |-> r.store,
                    writes |-> IF r.error THEN kv_hist.writes
                               ELSE Wrote(kv_hist.writes, key,
                                          JsonNum(r.value), c.sandbox_id),
                    call |-> Finish(c,
                                IF r.error
                                THEN [NoReply EXCEPT !.success = "False",
                                                     !.reason = "incr"]
                                ELSE [ReplySuccess EXCEPT
                                          !.value = JsonNum(r.value)],
                                r.store)]
          [] c.pc = "decr" ->
               \* handle_delete: redis.incr(count_key, -1)
               LET r == r_incr(redis, count_key, -1)
               IN  [store |-> r.store, writes |-> kv_hist.writes,
                    call |-> Finish(c, [ReplySuccess EXCEPT
                                            !.existed = "True"], r.store)]

\* s without its i-th element
Without(s, i) == SubSeq(s, 1, i - 1) \o SubSeq(s, i + 1, Len(s))

\* kv_calls holds the handlers that are suspended; kv_hist.last is the
\* handler that ended last
KvCommit(r, calls) ==
    /\ redis' = r.store
    /\ kv_calls' = calls
    /\ kv_hist' = [kv_hist EXCEPT
                     !.writes = r.writes,
                     !.last = IF r.call.pc = "done" THEN r.call ELSE @]

\* A handler is called with a command of a sandbox
kv_call(cmd) ==
    /\ kv_hist.calls < MaxCalls
    /\ Len(kv_calls) < MaxInProgress
    /\ LET r == kv_first(KvCall(cmd))
           others == [i \in 1..Len(kv_calls) |->
                         [kv_calls[i] EXCEPT !.alone = FALSE]]
       IN  /\ redis' = r.store
           /\ kv_calls' = IF r.call.pc = "done" THEN others
                          ELSE Append(others, r.call)
           /\ kv_hist' = [kv_hist EXCEPT
                            !.writes = r.writes,
                            !.last = IF r.call.pc = "done" THEN r.call ELSE @,
                            !.calls = @ + 1,
                            !.sandboxes = @ \cup {cmd.sandbox_id},
                            !.incrs = @ \/ cmd.op = "incr"]
    /\ UNCHANGED <<protocol_vars, other_vars>>

\* The store answers the i-th suspended handler
kv_resume(i) ==
    /\ i \in 1..Len(kv_calls)
    /\ LET r == kv_next(kv_calls[i])
       IN  KvCommit(r, IF r.call.pc = "done" THEN Without(kv_calls, i)
                       ELSE [kv_calls EXCEPT ![i] = r.call])
    /\ UNCHANGED <<protocol_vars, other_vars>>

----------------------------------------------------------------------------
(* Several runs on one registry.  Each run r is a SandboxProtocol with its   *)
(* SandboxApi; the resources of the registry get the api of the run as an   *)
(* argument of every call.  A command is dispatched and answered in one     *)
(* step.  Every effect is recorded on the run it acts on, with the run      *)
(* whose command caused it.                                                 *)

\* the commands the child of a run gets through
MaxRunCommands == 2

\* the runs alive together, and the inbound messages of the worker
Runs == {1, 2}
Messages == {<<"m1">>, <<"m2">>}

\* SandboxApi.__init__ and SandboxProtocol.__init__: no transport, an empty
\* cache of inbound messages
NoRun ==
    [transport |-> "none", pid |-> FALSE, stdin |-> FALSE,
     inbound_messages |-> {}, written |-> <<>>, signals |-> <<>>,
     lookups |-> <<>>, commands |-> 0]

\* SandboxApi.sandbox_send of api: api._sandbox.send(msg)
api_sandbox_send(rs, api, msg, cause) ==
    IF rs[api].transport = "attached" /\ rs[api].stdin
    THEN [rs EXCEPT ![api].written = Append(@, [msg |-> msg, cause |-> cause])]
    ELSE rs

\* SandboxApi.sandbox_kill of api: api._sandbox.kill()
api_sandbox_kill(rs, api, cause) ==
    IF rs[api].transport = "attached" /\ rs[api].pid
    THEN [rs EXCEPT ![api].signals = Append(@, cause)]
    ELSE rs

\* SandboxApi.get_inbound_message of api
api_get_inbound_message(rs, api, message_id, cause) ==
    [rs EXCEPT ![api].lookups =
         Append(@, [message_id |-> message_id,
                    found |-> message_id \in rs[api].inbound_messages,
                    cause |-> cause])]

\* SandboxApi.sandbox_inbound_message of api
api_sandbox_inbound_message(rs, api, message_id) ==
    api_sandbox_send(
        [rs EXCEPT ![api].inbound_messages = @ \cup {message_id}], api,
        SandboxCommand(<<"inbound-message">>, generate_id(0), FALSE, None,
                       None), api)

\* a registry whose resources keep the api of some attached run and act on
\* it, whichever run the command came from
handler_api_kept(rs, r) == CHOOSE q \in Runs : rs[q].transport = "attached"

\* resource.dispatch_request(self, command), and self.sandbox_send(reply):
\* the api a command of run r is handled with and answered through
handler_api(rs, r) == r

\* SandboxApi.dispatch_request(command) of run r, to its end: the lookup of
\* handle_reply_to, the kill of unknown_request, the reply
api_dispatch_request(rs, r, command, in_reply_to) ==
    LET api == handler_api(rs, r)
        p   == partition(command.cmd)
        resource_name == IF p.sep = <<>> THEN <<>> ELSE p.head
        rest          == IF p.sep = <<>> THEN p.head ELSE p.tail
        resource == IF resource_name \in resources THEN resource_name
                    ELSE fallback_resource
        cmd1 == [command EXCEPT !.cmd = rest]
        h    == resource_handler(resource, cmd1)
        res  == handler_result(h, cmd1)
        rs1  == IF h.handle = <<"unknown_request">>
                THEN api_sandbox_kill(rs, api, r)
                ELSE IF h.handle = <<"reply_to">> /\ res = "None"
                THEN api_get_inbound_message(rs, api, in_reply_to, r)
                ELSE rs
        rep  == IF res = "raises"
                THEN SandboxCommand(command.cmd, command.cmd_id, TRUE,
                                    "False", "message")
                ELSE [reply(cmd1, "True", None) EXCEPT !.cmd = command.cmd]
    IN  IF res \in {"reply", "raises"}
        THEN api_sandbox_send(rs1, api, rep, r)
        ELSE rs1

\* the texts the children of SpecRuns write: log.info, an unregistered
\* resource, outbound.send_to without content, outbound.reply_to
RunTexts == {"L", "R", "B", "P"}

\* spawn, connectionMade and on_start of run r for the inbound message
\* message_id
run_start(r, message_id) ==
    /\ runs[r].transport = "none"
    /\ runs' = api_sandbox_inbound_message(
                   [runs EXCEPT ![r].transport = "attached",
                                ![r].pid = TRUE, ![r].stdin = TRUE],
                   r, message_id)
    /\ UNCHANGED <<protocol_vars, kv_vars, waiters>>

\* outReceived of run r with one command of its child
run_command(r, text, in_reply_to) ==
    /\ runs[r].transport = "attached"
    /\ runs[r].commands < MaxRunCommands
    /\ runs' = api_dispatch_request(
                   [runs EXCEPT ![r].commands = @ + 1], r,
                   from_json(<<text>>), in_reply_to)
    /\ UNCHANGED <<protocol_vars, kv_vars, waiters>>

\* the child of run r is gone: its stdin is closed and the transport has
\* no pid any more
run_reap(r) ==
    /\ runs[r].transport = "attached" /\ runs[r].pid
    /\ runs' = [runs EXCEPT ![r].pid = FALSE, ![r].stdin = FALSE]
    /\ UNCHANGED <<protocol_vars, kv_vars, waiters>>

----------------------------------------------------------------------------
(* Specifications *)

\* SandboxProtocol.__init__, for a child that will write out and err, in a
\* run that process_message_in_sandbox (entry "message") or
\* process_event_in_sandbox (entry "event") is about to start
ConstructFor(entry, out, err) ==
    /\ spawned = FALSE
    /\ transport = "none"
    /\ pid = FALSE
    /\ proc = "unborn"
    /\ pipes = [stdin |-> FALSE, stdout |-> FALSE, stderr |-> FALSE]
    /\ ended = FALSE
    /\ started = MultiDeferred
    /\ done = MultiDeferred
    /\ pending = <<>>
    /\ requests_done = [state |-> "none", n |-> 0, waited |-> FALSE,
                        result |-> NotFired]
    /\ timeout_task = "active"
    /\ recv_bytes = 0
    /\ chunk = <<>>
    /\ error_chunk = <<>>
    /\ written = <<>>
    /\ signals = 0
    /\ log = <<>>
    /\ child_out = out
    /\ child_err = err
    /\ run = [state |-> "none", status |-> NotFired, entry |-> entry]
    /\ redis = {}
    /\ kv_calls = <<>>
    /\ waiters = <<>>
    /\ runs = [r \in Runs |-> NoRun]
    /\ kv_hist = [writes |-> {}, last |-> NoCall, calls |-> 0,
                  sandboxes |-> {}, incrs |-> FALSE]
    /\ hist = [kills |-> <<>>, sent |-> <<>>, completed |-> <<>>, inits |-> 0,
               delivered |-> 0,
               accepted |-> 0, refused |-> FALSE, out |-> <<>>,
               lastChunk |-> [stream |-> None, len |-> 0, before |-> 0,
                              carry |-> 0, refused |-> FALSE, lines |-> 0, kills |-> 0,
                              logs |-> 0],
               raised |-> FALSE, reason |-> NotFired]

Construct(out, err) == ConstructFor("message", out, err)

\* what the child of Spec writes: commands, one per line, on stdout
CommandScripts ==
    { <<"G", NL, "g", NL>>,      \* two kv.get in flight
      <<"L", NL, "B", NL>>,      \* log.info, then outbound.send_to without content
      <<"B", NL, "G", NL>>,      \* a handler that raises, then kv.get
      <<"O", NL, "N", NL>>,      \* outbound.send_to, then a name without a dot
      <<"R", NL, "G", NL>>,      \* an unregistered resource, then kv.get
      <<"H", NL, "L", NL>>,      \* a missing handler, then log.info
      <<"x", NL, "G">>,          \* no JSON, then kv.get without its newline
      <<"G", "g", NL>>,          \* two JSON texts on one line
      <<"G", NL, "g", NL, "L">>, \* more than RecvLimit
      <<"P", NL, "Q", NL>>       \* outbound.reply_to, then reply_to_group
                                 \* without content
    }

\* ... and on stderr
ErrScripts == { <<"x", NL>>, <<"x", "x", NL, "x">> }

Init ==
    \/ \E out \in CommandScripts : Construct(out, <<>>)
    \/ Construct(<<"G", NL, "L", NL>>, <<"x", NL>>)
    \/ ConstructFor("event", <<"L", NL>>, <<>>)

RECURSIVE SeqsUpTo(_, _)
SeqsUpTo(S, n) ==
    IF n = 0 THEN {<<>>}
    ELSE LET shorter == SeqsUpTo(S, n - 1)
         IN  shorter \cup {Append(s, b) : s \in shorter, b \in S}

\* the child of SpecFraming writes any bytes to stdout
InitFraming ==
    \E out \in SeqsUpTo({"x", NL}, MaxBytes), err \in {<<>>} \cup ErrScripts :
        Construct(out, err)

\* the chunks the transport may cut off the head of a stream
Chunks(stream) ==
    {SubSeq(stream, 1, n) : n \in {k \in 1..MaxChunk : k <= Len(stream)}}

Next ==
    \/ spawn
    \/ connectionMade
    \/ \E code \in {0, 1} : child_exits(code)
    \/ reap
    \/ inConnectionLost
    \/ outConnectionLost
    \/ errConnectionLost
    \/ process_ends
    \/ start_fails
    \/ timeout_expires
    \/ \E data \in Chunks(child_out) : outReceived(data)
    \/ \E data \in Chunks(child_err) : errReceived(data)
    \/ \E i \in 1..Len(pending), result \in {"reply", "raises"} :
           request_settles(i, result)

Spec == Init /\ [][Next]_vars

\* SpecFraming: the two streams of a child that neither exits on its own
\* nor outlives its timeout, cut in every way
NextFraming ==
    \/ spawn
    \/ connectionMade
    \/ reap
    \/ outConnectionLost
    \/ errConnectionLost
    \/ \E data \in Chunks(child_out) : outReceived(data)
    \/ \E data \in Chunks(child_err) : errReceived(data)

SpecFraming == InitFraming /\ [][NextFraming]_vars

\* SpecLive: the runs of two short children, with the fairness the reactor,
\* the operating system and the backends give.  The transport is connected
\* inside spawn(), before the reactor runs another callback, so the timer
\* does not expire between the two; it expires at some time unless it is
\* cancelled; a dead child is reaped, its pipes are closed and its end is
\* notified; a resource call gets its answer.  A child need not write, nor
\* exit on its own.
InitLive ==
    \/ Construct(<<"G", NL>>, <<>>)
    \/ Construct(<<"L", NL, "G">>, <<"x", NL>>)

TimerLive == (spawned => transport = "attached") /\ timeout_expires

ResourcesLive ==
    \E i \in 1..Len(pending), result \in {"reply", "raises"} :
        request_settles(i, result)

NextLive ==
    \/ spawn
    \/ connectionMade
    \/ \E code \in {0, 1} : child_exits(code)
    \/ reap
    \/ inConnectionLost
    \/ outConnectionLost
    \/ errConnectionLost
    \/ process_ends
    \/ start_fails
    \/ TimerLive
    \/ \E data \in Chunks(child_out) : outReceived(data)
    \/ \E data \in Chunks(child_err) : errReceived(data)
    \/ ResourcesLive

Fairness ==
    /\ WF_vars(TimerLive)
    /\ WF_vars(connectionMade)
    /\ WF_vars(reap)
    /\ WF_vars(proc # "alive" /\ inConnectionLost)
    /\ WF_vars(proc # "alive" /\ outConnectionLost)
    /\ WF_vars(proc # "alive" /\ errConnectionLost)
    /\ WF_vars(process_ends)
    /\ WF_vars(start_fails)
    /\ WF_vars(ResourcesLive)

SpecLive == InitLive /\ [][NextLive]_vars /\ Fairness

\* SpecKv: the kv commands of two sandbox ids, one the head of the other,
\* on one store
SandboxIds == { <<"a">>, <<"a", "#", "b">> }

KvCommand(sandbox_id, op, key, value) ==
    [sandbox_id |-> sandbox_id, op |-> op, key |-> key, value |-> value]

KvCommands ==
    { KvCommand(<<"a">>, "set", <<"k">>, JsonStr("1")),
      KvCommand(<<"a">>, "set", <<"b", "#", "k">>, JsonNum(1)),
      KvCommand(<<"a">>, "delete", <<"k">>, JsonNull),
      KvCommand(<<"a">>, "get", <<"k">>, JsonNull),
      KvCommand(<<"a">>, "incr", <<"k">>, JsonNull),
      KvCommand(<<"a">>, "incr", <<"k">>, JsonStr("x")),
      KvCommand(<<"a", "#", "b">>, "get", <<"k">>, JsonNull) }

InitKv == Construct(<<>>, <<>>)

NextKv ==
    \/ \E cmd \in KvCommands : kv_call(cmd)
    \/ \E i \in 1..Len(kv_calls) : kv_resume(i)

SpecKv == InitKv /\ [][NextKv]_vars

\* SpecKvValues: the kv commands of one sandbox on one key, with the values
\* a child may set
MaxValueCalls == 3

KvValueCommands ==
    { KvCommand(<<"a">>, "set", <<"k">>, JsonNum(1)),
      KvCommand(<<"a">>, "set", <<"k">>, JsonNull),
      KvCommand(<<"a">>, "set", <<"k">>, JsonStr("1")),
      KvCommand(<<"a">>, "set", <<"k">>, JsonList(<<JsonNum(1), JsonNull>>)),
      KvCommand(<<"a">>, "delete", <<"k">>, JsonNull),
      KvCommand(<<"a">>, "get", <<"k">>, JsonNull),
      KvCommand(<<"a">>, "incr", <<"k">>, JsonNull) }

NextKvValues ==
    \/ \E cmd \in KvValueCommands :
           kv_hist.calls < MaxValueCalls /\ kv_call(cmd)
    \/ \E i \in 1..Len(kv_calls) : kv_resume(i)

SpecKvValues == InitKv /\ [][NextKvValues]_vars

----------------------------------------------------------------------------
(* The MultiDeferreds of one protocol and the callers of get().  A caller   *)
(* may ask before or after the fire; each of `started` and `done` is fired  *)
(* once, as SandboxProtocol does.                                           *)

\* the waiters get() hands out in one run of the model
MaxWaiters == 4

\* what a MultiDeferred is fired with: a value, Python's None, a failure
MultiResults ==
    { Result("protocol", None, <<>>, <<>>),
      Result("None", None, <<>>, <<>>),
      Result("Failure", "SandboxError", <<>>, <<>>) }

MultiNames == {"started", "done"}
Multi(name) == IF name = "started" THEN started ELSE done

Waiter(i) == <<"d", i>>

\* SandboxProtocol.started() / done() called by one more caller
multi_get(name) ==
    /\ Len(waiters) < MaxWaiters
    /\ LET d == Waiter(Len(waiters) + 1)
       IN  /\ waiters' = Append(waiters,
                                [of |-> name, d |-> get_deferred(Multi(name))])
           /\ IF name = "started"
              THEN started' = get(started, d) /\ UNCHANGED done
              ELSE done' = get(done, d) /\ UNCHANGED started
    /\ UNCHANGED <<kv_vars, runs>>
    /\ UNCHANGED <<spawned, transport, pid, proc, pipes, ended, pending,
                   requests_done, timeout_task, recv_bytes, chunk,
                   error_chunk, written, signals, log, child_out, child_err,
                   run, hist>>

\* MultiDeferred.callback(result): every queued waiter is completed with
\* the result, and the queue is emptied
multi_callback(name, result) ==
    /\ ~fired(Multi(name))
    /\ waiters' = [i \in DOMAIN waiters |->
                      IF \E j \in DOMAIN Multi(name).deferreds :
                             Multi(name).deferreds[j] = Waiter(i)
                      THEN [waiters[i] EXCEPT !.d = d_callback(@, result)]
                      ELSE waiters[i]]
    /\ IF name = "started"
       THEN started' = callback(started, result) /\ UNCHANGED done
       ELSE done' = callback(done, result) /\ UNCHANGED started
    /\ UNCHANGED <<kv_vars, runs>>
    /\ UNCHANGED <<spawned, transport, pid, proc, pipes, ended, pending,
                   requests_done, timeout_task, recv_bytes, chunk,
                   error_chunk, written, signals, log, child_out, child_err,
                   run, hist>>

InitMulti == Construct(<<>>, <<>>)

NextMulti ==
    \/ \E name \in MultiNames : multi_get(name)
    \/ \E name \in MultiNames, result \in MultiResults :
           multi_callback(name, result)

SpecMulti == InitMulti /\ [][NextMulti]_vars

InitRuns == Construct(<<>>, <<>>)

NextRuns ==
    \/ \E r \in Runs, message_id \in Messages : run_start(r, message_id)
    \/ \E r \in Runs, text \in RunTexts, in_reply_to \in Messages :
           run_command(r, text, in_reply_to)
    \/ \E r \in Runs : run_reap(r)

SpecRuns == InitRuns /\ [][NextRuns]_vars

----------------------------------------------------------------------------
(* Properties *)

Settled(i) == pending[i].status # "pending"

\* C1: `done` fires at most once, and when it has fired processEnded has
\* been called and every dispatch task of the run has settled.
C1_DoneAfterDrain ==
    /\ done.fires <= 1
    /\ fired(done) => ended /\ \A i \in 1..Len(pending) : Settled(i)

\* `done` has fired after the DeferredList had to wait for a request
C1_Witness == fired(done) /\ requests_done.waited /\ Len(pending) >= 2

\* C2 as stated: recv_bytes <= recv_limit in every state.
C2_RecvBytesWithinLimit == recv_bytes <= RecvLimit

\* C2 amended: the bytes of the chunks check_recv accepted never exceed
\* recv_limit; recv_bytes is the length of every chunk delivered so far,
\* the refused ones included, and it exceeds recv_limit exactly when a chunk
\* has been refused.
C2_AcceptedWithinLimit ==
    /\ hist.accepted <= RecvLimit
    /\ recv_bytes = hist.delivered
    /\ recv_bytes > RecvLimit <=> hist.refused

\* chunks up to the limit were accepted, then one was refused
C2_Witness == hist.refused /\ hist.accepted = RecvLimit

\* C3: check_recv kills (once) and logs (once) on a chunk exactly when the
\* chunk's length added to the bytes of every earlier chunk of both streams
\* exceeds recv_limit, and a chunk it kills on completes no line.
C3_JointBudget ==
    LET c == hist.lastChunk
        over == c.before + c.len > RecvLimit
    IN  c.stream # None =>
            /\ c.kills = (IF over THEN 1 ELSE 0)
            /\ c.logs = c.kills
            /\ c.refused <=> over
            /\ over => c.lines = 0

\* a stderr chunk is the first to go over a total that stdout filled
C3_Witness ==
    /\ hist.lastChunk.stream = "stderr"
    /\ hist.lastChunk.refused
    /\ hist.lastChunk.before <= RecvLimit
    /\ hist.out # <<>>
    /\ hist.lastChunk.before > Len(hist.out)

\* the lines of the tasks dispatched so far, in order
DispatchedLines == [i \in 1..Len(pending) |-> pending[i].line]

\* C6: while no chunk has been refused, the lines dispatched are the
\* pieces of the whole stdout stream split at its newlines: all but the
\* last piece while stdout is open (the last piece is the carry), and the
\* last piece too, if it is not empty, once stdout is closed.
C6_LinesAreTheStreamSplit ==
    LET parts == Split(hist.out)
    IN  (transport = "attached" /\ ~hist.refused) =>
            IF pipes.stdout
            THEN DispatchedLines = Front(parts) /\ chunk = Last(parts)
            ELSE /\ chunk = <<>>
                 /\ DispatchedLines =
                        Front(parts) \o (IF Last(parts) # <<>>
                                         THEN <<Last(parts)>> ELSE <<>>)

\* a line that arrived in two chunks, and a fragment emitted at the close
C6_Witness ==
    /\ transport = "attached" /\ ~pipes.stdout /\ ~hist.refused
    /\ hist.out = <<"x", "x", NL, "x">>
    /\ hist.lastChunk.stream = "stdout"
    /\ hist.lastChunk.carry = 1 /\ hist.lastChunk.len = 3
    /\ Len(pending) = 2

----------------------------------------------------------------------------
(* What each dispatch task did *)

Task(i) == <<"task", i>>

\* the send() calls of task i, the kill() calls, the api.log calls at ERROR
SendsOf(i) == SelectSeq(hist.sent, LAMBDA e : e.by = Task(i))
KillsOf(i) == SelectSeq(hist.kills, LAMBDA e : e.by = Task(i))
ErrorLogsOf(i) ==
    SelectSeq(log, LAMBDA e : e.by = Task(i) /\ e.via = "api"
                              /\ e.level = "ERROR")

\* the command of task i as the child wrote it
Request(i) == _parse_command(pending[i].line, i)

\* a reply carrying the cmd_id of the request of task i
RepliesTo(e, i) == e.msg.reply /\ e.msg.cmd_id = Request(i).cmd_id

Replied(i) == Len(SendsOf(i)) = 1 /\ RepliesTo(SendsOf(i)[1], i)
Killed(i) == Len(KillsOf(i)) >= 1
\* an outbound command with a handler, for which nothing was sent
FireAndForget(i) ==
    /\ valid_json(pending[i].line)
    /\ partition(Request(i).cmd).head = <<"outbound">>
    /\ partition(Request(i).cmd).tail \in handlers(<<"outbound">>)
    /\ Len(SendsOf(i)) = 0

Count(b) == IF b THEN 1 ELSE 0

TaskWrites == SelectSeq(written, LAMBDA e : e.by[1] = "task")
WrittenBy == [k \in 1..Len(TaskWrites) |-> TaskWrites[k].by[2]]

\* s is t with some elements left out
RECURSIVE IsSubseq(_, _)
IsSubseq(s, t) ==
    IF s = <<>> THEN TRUE
    ELSE IF t = <<>> THEN FALSE
    ELSE IF Head(s) = Head(t) THEN IsSubseq(Tail(s), Tail(t))
    ELSE IsSubseq(s, Tail(t))

\* C5: every reply written to the child's stdin has reply = true, the
\* cmd_id of the request of the task that wrote it and that request's
\* name as the child wrote it; the replies are written in the order the
\* tasks completed.
C5_RepliesCorrelate ==
    /\ \A k \in 1..Len(written) :
           LET e == written[k]
           IN  e.by[1] = "task" =>
                   /\ e.by[2] \in 1..Len(pending)
                   /\ e.msg.reply = TRUE
                   /\ e.msg.cmd_id = Request(e.by[2]).cmd_id
                   /\ e.msg.cmd = Request(e.by[2]).cmd
    /\ IsSubseq(WrittenBy, hist.completed)

\* the reply to the second request is written before the reply to the first
C5_Witness ==
    /\ Len(TaskWrites) = 2
    /\ TaskWrites[1].by = Task(2) /\ TaskWrites[2].by = Task(1)
    /\ TaskWrites[1].msg.cmd_id = <<"Y">> /\ TaskWrites[2].msg.cmd_id = <<"X">>

\* the four kinds of command C7 names, read off the line the child wrote
NotJson(i) == ~valid_json(pending[i].line)
HasDot(name) == \E k \in 1..Len(name) : name[k] = "."
NoDot(i) == valid_json(pending[i].line) /\ ~HasDot(Request(i).cmd)
Unregistered(i) ==
    /\ valid_json(pending[i].line) /\ HasDot(Request(i).cmd)
    /\ partition(Request(i).cmd).head \notin resources
NoHandler(i) ==
    /\ valid_json(pending[i].line) /\ HasDot(Request(i).cmd)
    /\ partition(Request(i).cmd).head \in resources
    /\ partition(Request(i).cmd).tail
           \notin handlers(partition(Request(i).cmd).head)

\* C7: a line that is no JSON, a name without a dot, an unregistered
\* resource and a missing handler each get one ERROR log through the
\* sandbox API and one kill() (a KILL signal whenever the transport still has
\* a pid), and no reply.
C7_UnknownIsLoggedAndKilled ==
    \A i \in 1..Len(pending) :
        (NotJson(i) \/ NoDot(i) \/ Unregistered(i) \/ NoHandler(i)) =>
            /\ Settled(i)
            /\ Len(ErrorLogsOf(i)) = 1
            /\ Len(KillsOf(i)) = 1
            /\ Len(SendsOf(i)) = 0
            /\ KillsOf(i)[1].pid => signals >= 1 /\ proc # "alive"

\* a command for an unregistered resource has killed the running child
C7_Witness ==
    \E i \in 1..Len(pending) :
        Unregistered(i) /\ KillsOf(i)[1].pid /\ proc = "killed"

\* the complete lines of the stdout stream so far
CompleteLines == Len(Split(hist.out)) - 1

\* C8: when a handler raises, its task settles successfully, exactly one
\* send() is made for it, of {reply: true, success: false, reason} with the
\* request's cmd_id, kill() is not called for it, and as long as no chunk is
\* refused every complete line is still dispatched.
C8_HandlerExceptionBecomesReply ==
    /\ \A i \in 1..Len(pending) :
           /\ pending[i].status # "failed"
           /\ pending[i].returned = "raises" =>
                  /\ pending[i].status = "ok"
                  /\ Len(SendsOf(i)) = 1
                  /\ RepliesTo(SendsOf(i)[1], i)
                  /\ SendsOf(i)[1].msg.success = "False"
                  /\ SendsOf(i)[1].msg.reason # None
                  /\ Len(KillsOf(i)) = 0
    /\ (transport = "attached" /\ ~hist.refused /\ pipes.stdout)
           => Len(pending) = CompleteLines

\* a handler raised, the child is alive and the next command is in flight
C8_Witness ==
    /\ Len(pending) = 2
    /\ pending[1].returned = "raises"
    /\ pending[2].status = "pending"
    /\ proc = "alive" /\ signals = 0
    /\ Len(TaskWrites) = 1

\* C9: `started` has fired whenever processEnded has been called, hence
\* before `done`; it fired with the protocol if connectionMade was called
\* and with a failure otherwise; it never fires twice.
C9_StartedBeforeDone ==
    /\ started.fires <= 1
    /\ ended => fired(started)
    /\ fired(done) => fired(started)
    /\ fired(started) =>
           IF transport = "attached"
           THEN started.result.kind = "protocol"
           ELSE /\ started.result.kind = "Failure"
                /\ started.result.exc = "SandboxError"
                /\ ended

\* the process ended without connectionMade: both have fired
C9_Witness ==
    fired(done) /\ started.result.kind = "Failure" /\ transport = "none"

\* the exit code of a child that exited on its own
ExitCode == IF proc = "exit0" THEN <<0>> ELSE <<1>>

\* C10 as stated, for a child that started: `done` gets the exit code of
\* a child that exited on its own and the process-ended reason of a child
\* that was killed.
C10_ExitCodeOrReason ==
    (fired(done) /\ transport = "attached") =>
        IF proc \in {"exit0", "exit1"}
        THEN done.result.kind = "int" /\ done.result.exitCode = ExitCode
        ELSE done.result = Reason(proc)

\* C10 amended: `done` gets the status 0 of a child that ended with exit
\* code 0; for every other end, a non-zero exit code as much as a kill, it
\* gets the process-ended reason.
C10_StatusZeroOrReason ==
    fired(done) =>
        /\ done.result = hist.reason \/ done.result.kind = "int"
        /\ IF proc = "exit0"
           THEN done.result = Result("int", None, <<0>>, <<>>)
           ELSE /\ done.result = Reason(proc)
                /\ done.result.kind = "Failure"
                /\ done.result.exc = "ProcessTerminated"

\* a child that started and exited with code 1: `done` has its reason
C10_Witness ==
    /\ fired(done) /\ transport = "attached" /\ proc = "exit1"
    /\ done.result.exc = "ProcessTerminated"

----------------------------------------------------------------------------
(* The run of Sandbox._process_in_sandbox *)

\* the process ended and connectionMade was never called
NeverStarted == ended /\ transport = "none"

\* what C11 says of `started`, sandbox_init and the inbound command
StartFailureSendsNothing ==
    /\ started.result = Result("Failure", "SandboxError", <<>>, <<>>)
    /\ hist.inits = 0
    /\ hist.sent = <<>> /\ written = <<>>

\* C11 as stated: when the process ends without connectionMade, `started`
\* has fired with a failure, sandbox_init was not called and nothing was
\* sent, and the status of the run is that failure.
C11_StatusIsTheFailure ==
    NeverStarted =>
        /\ StartFailureSendsNothing
        /\ run.state = "fired" /\ run.status = started.result

\* C11 amended: when the process ends without connectionMade, `started`
\* has fired with a failure, sandbox_init was not called and nothing was
\* sent; the failure went to log.error (once) and the run has completed with
\* what log.error returned, not with the failure.
C11_FailureIsLogged ==
    NeverStarted =>
        /\ StartFailureSendsNothing
        /\ run = Completed(log_error_returns)
        /\ run.status # started.result
        /\ Len(SelectSeq(log, LAMBDA e : e.by = <<"_process_in_sandbox">>
                                         /\ e.via = "twisted")) = 1

\* the child died before the transport was connected and the run is over
C11_Witness ==
    NeverStarted /\ run.state = "fired" /\ proc = "exit1" /\ fired(done)

\* C12: whenever the run has completed, whatever the child did, its status
\* is a value and no failure: the status 0 of `done` for a child that
\* started and ended with exit code 0, and what log.error returned for
\* every other end; it completes no later than `done` fires.
C12_RunNeverRaises ==
    /\ run.state = "fired" =>
           /\ run.status.kind # "Failure"
           /\ run.status.kind \in {"int", "None"}
           /\ run.status.kind = "int" <=>
                  (transport = "attached" /\ proc = "exit0")
    /\ fired(done) => run.state = "fired"

\* the run of a child killed for its output has completed
C12_Witness ==
    /\ run.state = "fired" /\ transport = "attached"
    /\ hist.refused /\ proc = "killed" /\ signals >= 1

\* C14 as stated: the timer never expires on a protocol that has not been
\* spawned.
C14_NoTimeoutBeforeSpawn == ~spawned => timeout_task # "called"

\* C13 as stated: `done` fires at most once, and every run that was spawned
\* comes to fire it.
C13_EveryRunFiresDone ==
    /\ [](done.fires <= 1)
    /\ spawned ~> fired(done)

----------------------------------------------------------------------------
(* The key/value store *)

Quiescent == kv_calls = <<>>
OnlySandbox(sandbox_id) == kv_hist.sandboxes \subseteq {sandbox_id}
NoIncr == ~kv_hist.incrs

\* C15 as stated: while no incr handler and only handlers of one sandbox id
\* have run, its counter is never below the number of its live keys, and
\* equals it whenever no handler is in progress.
C15_CounterIsLiveKeys ==
    \A sandbox_id \in SandboxIds :
        (OnlySandbox(sandbox_id) /\ NoIncr) =>
            /\ Counter(redis, sandbox_id) >= Live(redis, sandbox_id)
            /\ Quiescent =>
                   Counter(redis, sandbox_id) = Live(redis, sandbox_id)

\* C16 as stated, for a handle_set that ran from its call to its reply with
\* no other handler in progress: called when the sandbox owns keys_per_user
\* live keys for a further key, it replies "Too many keys", stores nothing
\* and leaves the counter as it was; called for a key that exists, it
\* succeeds and leaves the counter as it was.
C16_QuotaRefusesFurtherKey ==
    LET c == kv_hist.last
    IN  (c.pc = "done" /\ c.op = "set" /\ c.alone
             /\ OnlySandbox(c.sandbox_id)) =>
            /\ (c.before.live = KeysPerUser /\ ~c.before.existed) =>
                   /\ c.reply = _too_many_keys
                   /\ ~c.after.existed
                   /\ c.after.live = c.before.live
                   /\ c.after.counter = c.before.counter
            /\ c.before.existed =>
                   /\ c.reply = ReplySuccess
                   /\ c.after.counter = c.before.counter

\* C17 as stated: a sandbox id never owns more than keys_per_user live keys.
C17_NeverMoreThanQuota ==
    \A sandbox_id \in SandboxIds :
        OnlySandbox(sandbox_id) => Live(redis, sandbox_id) <= KeysPerUser

\* C18: every handle_get succeeds with the value of the last handle_set (or
\* the number of the last handle_incr) that wrote the key and was not
\* followed by a delete, and with null for a key that is not in the store.
C18_SetThenGet ==
    LET c == kv_hist.last
    IN  (c.pc = "done" /\ c.op = "get") =>
            /\ c.reply.success = "True"
            /\ c.reply.value = c.expect
            /\ c.after.existed \/ c.reply.value = JsonNull

\* a get has answered the nested value the same sandbox had set
C18_Witness ==
    /\ kv_hist.last.pc = "done" /\ kv_hist.last.op = "get"
    /\ kv_hist.last.source = kv_hist.last.sandbox_id
    /\ kv_hist.last.after.existed
    /\ kv_hist.last.reply.value = JsonList(<<JsonNum(1), JsonNull>>)

\* C19 as stated: a handle_get of a sandbox id answers from a key that this
\* sandbox id wrote or that is not in the store, and the counter keys of two
\* sandbox ids differ.
C19_TenantsIsolated ==
    /\ \A a, b \in SandboxIds : a # b => _count_key(a) # _count_key(b)
    /\ LET c == kv_hist.last
       IN  (c.pc = "done" /\ c.op = "get") => c.source = c.sandbox_id

----------------------------------------------------------------------------
(* Outbound commands *)

\* task i dispatched an outbound command that has a handler
Outbound(i) ==
    /\ valid_json(pending[i].line)
    /\ partition(Request(i).cmd).head = <<"outbound">>
    /\ partition(Request(i).cmd).tail \in handlers(<<"outbound">>)

\* C20 as stated: no send() is made, and nothing is written to the child's
\* stdin, for an outbound command.
C20_NoReplyToOutbound ==
    \A i \in 1..Len(pending) :
        Outbound(i) =>
            /\ Len(SendsOf(i)) = 0
            /\ \A k \in 1..Len(written) : written[k].by # Task(i)

\* C20 amended: an outbound command whose handler returns gets no reply;
\* one whose handler raises (a field it reads is missing) gets the one
\* failure reply of a handler exception, and no other.
C20_NoReplyUnlessHandlerRaises ==
    \A i \in 1..Len(pending) :
        Outbound(i) =>
            /\ Settled(i)
            /\ IF Request(i).content
               THEN /\ pending[i].returned = "None"
                    /\ Len(SendsOf(i)) = 0
                    /\ \A k \in 1..Len(written) : written[k].by # Task(i)
               ELSE /\ pending[i].returned = "raises"
                    /\ Len(SendsOf(i)) = 1
                    /\ RepliesTo(SendsOf(i)[1], i)
                    /\ SendsOf(i)[1].msg.success = "False"

\* a reply_to was handled without a word to the child, and the reply_to_group
\* after it, which lacks its content, was answered with a failure
C20_Witness ==
    /\ Len(pending) = 2
    /\ Outbound(1) /\ Request(1).content /\ Len(SendsOf(1)) = 0
    /\ Outbound(2) /\ ~Request(2).content
    /\ Len(TaskWrites) = 1 /\ TaskWrites[1].by = Task(2)

----------------------------------------------------------------------------
\* C21: every Deferred that get() of a MultiDeferred handed out, before or
\* after the fire, has been completed at most once; while the MultiDeferred
\* has not fired its waiters are pending and fired() is false; once it has
\* fired, fired() is true and every waiter has been completed exactly once,
\* with the result the MultiDeferred was fired with.
C21_WaitersGetTheResultOnce ==
    /\ \A name \in MultiNames :
           /\ fired(Multi(name)) <=> Multi(name).fires > 0
           /\ Multi(name).fires <= 1
    /\ \A i \in DOMAIN waiters :
           LET md == Multi(waiters[i].of)
               d  == waiters[i].d
           IN  /\ d.fires <= 1
               /\ ~fired(md) => d = Deferred
               /\ fired(md) => d.fires = 1 /\ d.result = md.result

\* a MultiDeferred fired with None, with a waiter from before the fire and
\* one from after it
C21_Witness ==
    /\ fired(done) /\ done.result = Result("None", None, <<>>, <<>>)
    /\ \E i, j \in DOMAIN waiters :
           /\ i < j
           /\ waiters[i].of = "done" /\ waiters[j].of = "done"
           /\ waiters[i].d.fires = 1 /\ waiters[j].d.fires = 1
    /\ \E i \in DOMAIN waiters :
           waiters[i].of = "started" /\ waiters[i].d = Deferred

----------------------------------------------------------------------------
\* what on_start put on the child's stdin, in order
OnStartWrites ==
    SelectSeq(written, LAMBDA e : e.by = <<"on_start", 0>>)

InboundCommand ==
    IF run.entry = "message" THEN <<"inbound-message">>
    ELSE <<"inbound-event">>

\* C22: nothing is written to the child's stdin before `started` has fired
\* successfully; the init hooks of the resources run at most once, and
\* exactly once in a run that started, the JS resource sending exactly one
\* `initialize`; the inbound message or event is written right after that
\* `initialize`, before anything else and before the run waits on `done`.
C22_InitializeThenInbound ==
    /\ written # <<>> => started.result.kind = "protocol"
    /\ hist.inits <= 1
    /\ started.result.kind = "protocol" =>
           /\ hist.inits = 1
           /\ run.state \in {"done", "fired"}
           /\ Len(written) >= 2
           /\ written[1].msg.cmd = <<"initialize">>
           /\ written[2].msg.cmd = InboundCommand
           /\ OnStartWrites = SubSeq(written, 1, 2)
           /\ \A i \in 3..Len(written) :
                  written[i].msg.cmd \notin
                      {<<"initialize">>, <<"inbound-message">>,
                       <<"inbound-event">>}

\* a started run of process_event_in_sandbox that is waiting on `done` and
\* has answered a command of the child
C22_Witness ==
    /\ run.entry = "event" /\ run.state = "done"
    /\ Len(written) = 3
    /\ written[2].msg.cmd = <<"inbound-event">>
    /\ written[3].msg.reply

----------------------------------------------------------------------------
\* C23: once a chunk, of stdout or of stderr, has been refused for exceeding
\* the output budget, no step dispatches a command any more: the list of
\* dispatch tasks stays as it is, whether stdout delivers further chunks or
\* closes with a fragment in its carry.
C23_NoDispatchAfterRefusal ==
    [][hist.refused => Len(pending') = Len(pending)]_vars

----------------------------------------------------------------------------
\* C24: resource calls in flight when the process ends are not cancelled:
\* after processEnded every unsettled dispatch task can still get its
\* answer and run to its end, and `done` has fired exactly when all of them
\* have settled, with the result of the process's end.  No step after
\* processEnded writes to the child's stdin, adds a dispatch task or raises.
C24_InFlightCallsFinishUnheard ==
    /\ [](ended =>
            /\ fired(done) <=> \A i \in 1..Len(pending) : Settled(i)
            /\ fired(done) => done.result = ended_result(hist.reason)
            /\ \A i \in 1..Len(pending) :
                   ~Settled(i) => ENABLED request_settles(i, "reply"))
    /\ [][ended => /\ written' = written
                   /\ Len(pending') = Len(pending)
                   /\ hist'.raised = hist.raised]_vars

\* `done` has fired after processEnded had to wait for two resource calls,
\* both of which replied, and neither reply reached the child
C24_Witness ==
    /\ fired(done) /\ requests_done.waited /\ requests_done.n = 2
    /\ Replied(1) /\ Replied(2)
    /\ TaskWrites = <<>>

----------------------------------------------------------------------------
TimeoutKills == SelectSeq(hist.kills, LAMBDA e : e.by = <<"timeout">>)

\* C25: once processEnded has run the timer is not armed any more: it was
\* cancelled by processEnded if it had not expired, and is left as called
\* if it had; no later step changes the timer or has it issue a kill.
C25_TimerCancelledAtEnd ==
    /\ [](/\ ended => timeout_task \in {"cancelled", "called"}
          /\ timeout_task = "cancelled" => ended /\ TimeoutKills = <<>>
          /\ Len(TimeoutKills) <= 1)
    /\ [][/\ ended => /\ timeout_task' = timeout_task
                      /\ hist'.kills = hist.kills
          /\ (ended' /\ timeout_task = "called") => timeout_task' = "called"]_vars

\* a run that ended with the timer cancelled and went on draining, and
\* whose child had been killed for its output
C25_Witness ==
    /\ ended /\ timeout_task = "cancelled"
    /\ requests_done.waited /\ fired(done)
    /\ Len(hist.kills) >= 1

----------------------------------------------------------------------------
\* C26: a handle_incr that ran from its call to its reply with no other
\* handler in progress counts a key that did not exist exactly once, leaves
\* the counter alone for a key that existed, and, when it replies
\* success: false, leaves the counter and the live keys of its sandbox as
\* they were before the call.
C26_IncrCountsLikeSet ==
    LET c == kv_hist.last
    IN  (c.pc = "done" /\ c.op = "incr" /\ c.alone) =>
            /\ (c.reply.success = "True" /\ ~c.before.existed) =>
                   /\ c.after.counter = c.before.counter + 1
                   /\ c.after.live = c.before.live + 1
            /\ c.before.existed => c.after.counter = c.before.counter
            /\ c.reply.success = "False" =>
                   /\ c.after.counter = c.before.counter
                   /\ c.after.live = c.before.live

----------------------------------------------------------------------------
----------------------------------------------------------------------------
\* C28: kill() is safe in every state of the protocol: no call of it raises,
\* each call signals the process exactly when the transport has a pid, and
\* KILL is never delivered to a process that has been reaped.
C28_KillIsSafe ==
    /\ [](/\ ~hist.raised
          /\ signals =
                 Cardinality({k \in 1..Len(hist.kills) : hist.kills[k].pid}))
    /\ [][signals' # signals => pid]_vars

====
